---- MODULE Spec2Model ----
(***************************************************************************)
(* Model of examples/history_vehicles_replacement_for_imitation_learning.py *)
(*                                                                         *)
(* Units.  Times are integers in hundredths of a second (0.1 s = 10).      *)
(* Headings are in units of 1e-2 rad, speeds in units of 0.1, positions in *)
(* whole distance units, so that every tolerance of act() is an integer.   *)
(***************************************************************************)
EXTENDS Integers, Sequences, FiniteSets, TLC

VARIABLES
    agents,        \* agent_id -> ReplayCheckerAgent object (its fields)
    observations,  \* agent_id -> Observation: the live observation set
    act_calls      \* <<>> or <<the last call of act: agent, obs, result>>

actVars == <<agents, observations, act_calls>>

VARIABLES
    \* parameters of main
    vehicles_to_replace, episodes, exists_at_or_after,
    minimum_history_duration, ends_before,
    \* locals of main
    scenarios_iterator,   \* the scenarios not yet visited
    scenario,             \* the scenario of the current iteration
    veh_missions,         \* veh_id -> mission, the admissible missions
    k,
    agent_spec,           \* its interface is one object shared by all agents
    episode,
    agentid_to_vehid, agent_interfaces, dones, ego_missions, sample,
    history_start_time,
    actions,
    smarts,               \* the simulator
    pc,                   \* position of main
    error,                \* the exception that ended main, "" if none
    \* history variables of the current episode and run
    done_reported,        \* agents some tick of this episode reported done
    handled,              \* agent_id -> times handled as newly done
    ticks,                \* iterations of the episode loop so far
    stepped,              \* smarts.step has been called in this run
    ops                   \* the operations of this episode, in order of
                          \* their first occurrence

VARIABLES
    vehs,                 \* custom_filter: the windows it is given
    vehicles              \* custom_filter: the windows it returns

filterVars == <<vehs, vehicles>>

paramVars == <<vehicles_to_replace, episodes, exists_at_or_after,
               minimum_history_duration, ends_before>>
scenarioVars == <<scenarios_iterator, scenario, veh_missions, k>>
episodeVars == <<episode, agentid_to_vehid, agent_interfaces, dones,
                 ego_missions, sample, history_start_time, actions>>
histRestVars == <<done_reported, handled, ticks, stepped>>
historyVars == <<histRestVars, ops>>
mainOnlyVars == <<paramVars, scenarioVars, episodeVars, historyVars,
                  agent_spec, smarts, pc, error, filterVars>>
vars == <<actVars, mainOnlyVars>>

----------------------------------------------------------------------------
(* Bounds of the model *)

\* largest elapsed_sim_time (hundredths of a second) of an observation
MaxTime == 12

----------------------------------------------------------------------------
(* Values of the program *)

Vehicles == {"v1", "v2", "v3"}

\* the vehicles whose agents act() is exercised on
ActVehicles == {"v1", "v2"}

\* None, where the program holds a number
NoneT == 0 - 1

\* agent_id, mutated: the vehicle id is left out
AgentIdShared(veh_id) == "ego-agent-IL-"

\* agent_id = f"ego-agent-IL-{veh_id}"
AgentId(veh_id) == "ego-agent-IL-" \o veh_id

Abs(x) == IF x < 0 THEN 0 - x ELSE x

Max2(a, b) == IF a >= b THEN a ELSE b

\* math.isclose: default rel_tol = 1e-09
RelTolDen == 1000000000

\* abs_tol of the heading check (1e-2 rad, in units of 1e-2 rad)
HeadingTol == 1
\* abs_tol of the speed check (0.2, in units of 0.1)
SpeedTol == 2
\* abs_tol of each position check (2, in whole units)
PosTol == 2

\* math.isclose(a, b, abs_tol=t) mutated to a strict comparison
IsCloseStrict(a, b, abs_tol) ==
    LET d == Abs(a - b)
    IN  d < abs_tol \/ d <= Max2(Abs(a), Abs(b)) \div RelTolDen

\* math.isclose(a, b, abs_tol=t):
\*   abs(a-b) <= max(rel_tol * max(abs(a), abs(b)), abs_tol)
IsClose(a, b, abs_tol) ==
    LET d == Abs(a - b)
    IN  d <= abs_tol \/ d <= Max2(Abs(a), Abs(b)) \div RelTolDen

\* round_param_for_dt: the decimal grid of dt, in hundredths of a second
\* (dt = 0.1 -> one decimal place -> grid 10)
Grid(dt) == IF dt % 100 = 0 THEN 100 ELSE IF dt % 10 = 0 THEN 10 ELSE 1

\* round(f, rp): nearest grid point, ties to even
RoundTo(t, g) ==
    LET q == t \div g
        r == t % g
    IN  IF 2 * r < g THEN q * g
        ELSE IF 2 * r > g THEN (q + 1) * g
        ELSE IF q % 2 = 0 THEN q * g ELSE (q + 1) * g

\* rounder_for_dt(dt) applied to t
Rounder(dt, t) == RoundTo(t, Grid(dt))

\* ReplayCheckerAgent.__init__
NewAgent(fixed_timestep_sec) ==
    [ fixed_timestep_sec |-> fixed_timestep_sec,
      time_offset |-> 0,
      data_is_none |-> TRUE,       \* self._data = None
      data |-> << >>,              \* the series, once loaded
      vehicle_id |-> "" ]

\* ReplayCheckerAgent.load_data_for_vehicle, series = the unpickled file
LoadData(agent, vehicle_id, series, time_offset) ==
    [ agent EXCEPT !.vehicle_id = vehicle_id,
                   !.time_offset = time_offset,
                   !.data_is_none = FALSE,
                   !.data = series ]

NeutralAction == <<0, 0>>

\* a call that raised: no action is returned
Raised(why) == [ outcome |-> why, returned |-> FALSE, action |-> NeutralAction,
                 checked |-> FALSE ]

Returned(how, act, chk) == [ outcome |-> how, returned |-> TRUE, action |-> act,
                             checked |-> chk ]

\* the key of the next tick, mutated: the lookahead step is dropped
ActionTimeNoStep(agent, obs_time) == Rounder(agent.fixed_timestep_sec, obs_time)

\* atime = self._rounder(obs_time + self._fixed_timestep_sec)
ActionTime(agent, obs_time) ==
    Rounder(agent.fixed_timestep_sec, obs_time + agent.fixed_timestep_sec)

\* obs_time, mutated: the sum is used as the key without rounding
ObsTimeNoRound(agent, obs) == obs.elapsed_sim_time + agent.time_offset

\* obs_time = self._rounder(obs.elapsed_sim_time + self._time_offset)
ObsTime(agent, obs) ==
    Rounder(agent.fixed_timestep_sec, obs.elapsed_sim_time + agent.time_offset)

\* ReplayCheckerAgent.act
Act(agent, obs) ==
    IF agent.data_is_none \/ DOMAIN agent.data = {}
    THEN Raised("assert_data")                       \* assert self._data
    ELSE
    LET obs_time == ObsTime(agent, obs)
    IN  IF obs_time \notin DOMAIN agent.data
        THEN Returned("neutral", NeutralAction, FALSE)   \* if not exp: return (0.0, 0.0)
        ELSE
        LET exp == agent.data[obs_time]
            cur_state == obs.ego_vehicle_state
        IN  IF ~IsClose(cur_state.heading, exp.heading, HeadingTol)
            THEN [ Raised("assert_heading") EXCEPT !.checked = TRUE ]
            ELSE IF ~IsClose(cur_state.speed, exp.speed, SpeedTol)
            THEN [ Raised("assert_speed") EXCEPT !.checked = TRUE ]
            ELSE IF ~IsClose(cur_state.position[1], exp.ego_pos[1], PosTol)
            THEN [ Raised("assert_pos_x") EXCEPT !.checked = TRUE ]
            ELSE IF ~IsClose(cur_state.position[2], exp.ego_pos[2], PosTol)
            THEN [ Raised("assert_pos_y") EXCEPT !.checked = TRUE ]
            ELSE
            LET atime == ActionTime(agent, obs_time)
            IN  IF atime \in DOMAIN agent.data
                THEN Returned("replayed",
                              <<agent.data[atime].acceleration,
                                agent.data[atime].angular_velocity>>, TRUE)
                ELSE Returned("replayed", NeutralAction, TRUE)

\* the agent after act, mutated: the entry looked up is popped off the series
AgentAfterActPop(agent, obs) ==
    [ agent EXCEPT !.data = [ t \in DOMAIN @ \ {ObsTime(agent, obs)} |-> @[t] ] ]

\* the agent after act(obs), on every path: act reads self._data with get and
\* with subscripts and assigns no attribute of self
AgentAfterAct(agent, obs) == agent

----------------------------------------------------------------------------
(* Recorded series and observations: the inputs of act() *)

\* tick durations an agent is built with (agent_params = fixed_timestep_sec)
DtSet == {10, 20}

\* the record stored in a collected-observations file at key t
RecAt(t) ==
    [ heading |-> 0, speed |-> 50, ego_pos |-> <<10, 20>>,
      acceleration |-> t \div 10, angular_velocity |-> 0 - (t \div 10) ]

SeriesKeys == {10, 20}

\* the series a data file can hold: any set of keys, the empty one included
SeriesSet == { [t \in K |-> RecAt(t)] : K \in SUBSET SeriesKeys }

Offsets == {0, 10}

----------------------------------------------------------------------------
(* The scenarios, their traffic histories and the simulator *)

\* more bounds of the model
MaxK == 2
MaxEpisodes == 2
MaxScenarios == 2

\* one TrafficHistoryVehicleWindow
W(v, start, end, speed) ==
    [ vehicle_id |-> v, start_time |-> start, end_time |-> end,
      average_speed |-> speed ]

FullSeries == [t \in {10, 20, 30} |-> RecAt(t)]
SparseSeries == [t \in {20, 40, 60} |-> RecAt(t)]
EmptySeries == [t \in {} |-> RecAt(t)]

\* a scenario with its traffic history; files are the collected observations
\* of its vehicles, final_exit_time is vehicle_final_exit_time per vehicle
Sc(name, source, ego, windows, exits, files) ==
    [ name |-> name, dataset_source |-> source, ego_vehicle_id |-> ego,
      vehicle_windows |-> windows, final_exit_time |-> exits,
      files |-> files, ego_missions |-> << >> ]

NoEgo == ""

ScenarioPool ==
    { Sc("ngsim_two", "NGSIM", NoEgo,
         << W("v1", 0, 30, 5), W("v2", 30, 60, 5), W("v3", 10, 40, 2) >>,
         [v \in Vehicles |-> IF v = "v1" THEN 30 ELSE 60],
         [v \in Vehicles |-> IF v = "v2" THEN SparseSeries ELSE FullSeries]),
      Sc("waymo_ego", "Waymo", "v1",
         << W("v1", 10, 40, 5), W("v2", 20, 40, 5) >>,
         [v \in Vehicles |-> 40],
         [v \in Vehicles |-> FullSeries]),
      Sc("waymo_slow_ego", "Waymo", "v2",
         << W("v1", 10, 30, 5), W("v2", 10, 40, 3) >>,
         [v \in Vehicles |-> 40],
         [v \in Vehicles |-> FullSeries]),
      Sc("waymo_single", "Waymo", "v1",
         << W("v1", 10, 30, 5) >>,
         [v \in Vehicles |-> 30],
         [v \in Vehicles |-> FullSeries]),
      Sc("empty", "NGSIM", NoEgo, << >>,
         [v \in Vehicles |-> NoneT],
         [v \in Vehicles |-> EmptySeries]),
      Sc("waymo_no_exit", "Waymo", NoEgo,
         << W("v1", 0, 30, 5), W("v2", 0, 30, 5) >>,
         [v \in Vehicles |-> IF v = "v1" THEN 30 ELSE NoneT],
         [v \in Vehicles |-> IF v = "v1" THEN EmptySeries ELSE FullSeries]) }

NoScenario == Sc("", "", NoEgo, << >>, << >>, << >>)

\* exists_at_or_after, minimum_history_duration, ends_before of a run:
\* a short window, and the defaults of main (40, 10, 80 seconds)
ParamSet == { <<20, 20, 60>>, <<4000, 1000, 8000>> }

\* the tick durations the simulator can be constructed with (0.1 s, 0.2 s)
SimDtSet == {10, 20}

\* SMARTS(...) as constructed by main
NewSmarts(dt) ==
    [ fixed_timestep_sec |-> dt, elapsed_sim_time |-> 0,
      agent_interfaces |-> << >>,   \* installed by switch_ego_agents
      steps |-> << >>,              \* agent_id -> observations delivered
      ended |-> {},                 \* agents whose vehicle has left
      start_time |-> 0,             \* the start_time of the last reset
      resets |-> 0, destroyed |-> FALSE ]

\* AgentSpec(interface=AgentInterface.from_type(...), ...)
NewAgentSpec == [ interface |-> [ max_episode_steps |-> NoneT ] ]

\* the variables of main while main is not running
MainIdleRest ==
    /\ vehicles_to_replace = 0 /\ episodes = 0
    /\ minimum_history_duration = 0 /\ ends_before = 0
    /\ scenarios_iterator = << >> /\ scenario = NoScenario
    /\ veh_missions = << >> /\ k = 0
    /\ agent_spec = NewAgentSpec
    /\ episode = 0
    /\ agentid_to_vehid = << >> /\ agent_interfaces = << >> /\ dones = << >>
    /\ ego_missions = << >> /\ sample = {} /\ history_start_time = NoneT
    /\ actions = << >>
    /\ smarts = NewSmarts(10)
    /\ error = ""
    /\ done_reported = {} /\ handled = << >> /\ ticks = 0 /\ stepped = FALSE
    /\ ops = << >>

MainIdle ==
    /\ MainIdleRest
    /\ exists_at_or_after = 0
    /\ pc = "idle"
    /\ vehs = << >> /\ vehicles = << >>

----------------------------------------------------------------------------
(* act() exercised on its own *)

\* live states around the recorded one: inside, at and beyond each tolerance
HeadingVals == {0 - 2, 0 - 1, 0, 1, 2}
SpeedVals == {50, 52, 53}
PosXVals == {10, 12, 13}
PosYVals == {17, 20}

MkObs(t, h, s, x, y) ==
    [ elapsed_sim_time |-> t,
      ego_vehicle_state |-> [ heading |-> h, speed |-> s, position |-> <<x, y>> ],
      events |-> [ reached_goal |-> FALSE ] ]

ActAgentIds == { AgentId(v) : v \in ActVehicles }

\* the files of the two vehicles: every series for v1, the full one for v2
FilesOf(v) == IF v = "v1" THEN SeriesSet ELSE { [t \in SeriesKeys |-> RecAt(t)] }
OffsetsOf(v) == IF v = "v1" THEN Offsets ELSE {0}

\* the agents are built (build_agent) and one of them is handed one
\* observation
InitAct ==
    /\ \E dt \in DtSet : agents = [a \in ActAgentIds |-> NewAgent(dt)]
    /\ \E a \in ActAgentIds, t \in 0 .. MaxTime, h \in HeadingVals,
          s \in SpeedVals, x \in PosXVals, y \in PosYVals :
          observations = [b \in {a} |-> MkObs(t, h, s, x, y)]
    /\ act_calls = << >>
    /\ MainIdle

\* load_data_for_vehicle on the agent of vehicle v
ALoad(v) ==
    /\ agents[AgentId(v)].data_is_none
    /\ \E series \in FilesOf(v), off \in OffsetsOf(v) :
          agents' = [agents EXCEPT ![AgentId(v)] = LoadData(@, v, series, off)]
    /\ UNCHANGED <<act_calls, observations, mainOnlyVars>>

\* one call of act on the observed agent
ACall(a) ==
    /\ a \in DOMAIN observations
    /\ act_calls' = << [ agent_id |-> a, agent |-> agents[a],
                         obs |-> observations[a],
                         obs_time |-> ObsTime(agents[a], observations[a]),
                         result |-> Act(agents[a], observations[a]) ] >>
    /\ agents' = [ agents EXCEPT ![a] = AgentAfterAct(@, observations[a]) ]
    /\ UNCHANGED <<observations, mainOnlyVars>>

NextAct ==
    \/ \E v \in ActVehicles : ALoad(v)
    \/ \E a \in ActAgentIds : ACall(a)

SpecAct == InitAct /\ [][NextAct]_vars

----------------------------------------------------------------------------
(* main: scenario loop, selection and mission assignment *)

\* start_window = 4 (seconds)
start_window == 400
\* v.average_speed > 3
MinAverageSpeed == 3
\* the literal 0.1 that final exit times are divided by
HardCodedDt == 10

\* custom_filter, mutated: the start band includes its limit
custom_filter_inclusive(ws, exists) ==
    LET Keep(v) == /\ v.average_speed > MinAverageSpeed
                   /\ Abs(v.start_time - exists) <= start_window
    IN  SelectSeq(ws, Keep)

\* custom_filter: the windows kept, in input order
custom_filter(ws, exists) ==
    LET Keep(v) == /\ v.average_speed > MinAverageSpeed
                   /\ Abs(v.start_time - exists) < start_window
    IN  SelectSeq(ws, Keep)

----------------------------------------------------------------------------
(* custom_filter exercised on its own *)

MaxWindows == 2

WindowA == W("A", 3800, 4800, 5)
WindowB == W("B", 5000, 6000, 1)

\* windows inside, at and beyond the speed limit and the start band of
\* exists_at_or_after = 40 s
FilterWindows ==
    {WindowA, WindowB}
    \cup { W("v1", st, st + 1000, sp) :
             st \in {3600, 3601, 4399, 4400}, sp \in {3, 4} }

InitFilter ==
    /\ vehs \in UNION { [1 .. n -> FilterWindows] : n \in 0 .. MaxWindows }
    /\ vehicles = << >>
    /\ exists_at_or_after \in {4000, 3604}
    /\ pc = "custom_filter"
    /\ MainIdleRest
    /\ agents = << >> /\ observations = << >> /\ act_calls = << >>

\* one call of custom_filter(vehs)
CustomFilter ==
    /\ pc = "custom_filter"
    /\ vehicles' = custom_filter(vehs, exists_at_or_after)
    /\ pc' = "filtered"
    /\ UNCHANGED <<actVars, paramVars, vehs, scenarioVars, episodeVars,
                   historyVars, agent_spec, smarts, error>>

NextFilter == CustomFilter

SpecFilter == InitFilter /\ [][NextFilter]_vars

\* scenario.history_missions_for_window(exists_at_or_after, ends_before,
\* minimum_history_duration, filter): one mission per window kept
history_missions_for_window(sc, exists, ends, min_duration) ==
    LET InBounds(w) == /\ w.end_time - w.start_time >= min_duration
                       /\ w.end_time <= ends
        kept == custom_filter(SelectSeq(sc.vehicle_windows, InBounds), exists)
    IN  [ i \in 1 .. Len(kept) |->
            [ vehicle_spec |-> [ veh_id |-> kept[i].vehicle_id ],
              start_time |-> kept[i].start_time ] ]

\* veh_missions = {mission.vehicle_spec.veh_id: mission for mission in ...}
VehMissionsOf(sc, exists, ends, min_duration) ==
    LET ms == history_missions_for_window(sc, exists, ends, min_duration)
        ids == { ms[i].vehicle_spec.veh_id : i \in 1 .. Len(ms) }
    IN  [ v \in ids |-> ms[CHOOSE i \in 1 .. Len(ms) : ms[i].vehicle_spec.veh_id = v] ]

\* k = vehicles_to_replace, clamped to len(veh_missions)
ClampK(requested, missions) ==
    IF requested > Cardinality(DOMAIN missions)
    THEN Cardinality(DOMAIN missions) ELSE requested

SetMax(S) == CHOOSE m \in S : \A x \in S : x <= m

\* max([vehicle_final_exit_time(veh_id) / 0.1 for veh_id in sample])
MaxEpisodeSteps(sc, smp) ==
    SetMax({ sc.final_exit_time[v] \div HardCodedDt : v \in smp })

\* `not x` for a number or None
Falsy(x) == x = NoneT \/ x = 0

\* the orders a set can be iterated in
Orders(S) ==
    { o \in [1 .. Cardinality(S) -> S] : \A i, j \in DOMAIN o : o[i] = o[j] => i = j }

\* the loop over the sample that fills the id maps and history_start_time;
\* it stops with a KeyError at the first vehicle that has no mission
RECURSIVE AssignLoop(_, _, _)
AssignLoop(order, missions, st) ==
    IF order = << >> THEN st
    ELSE
    LET veh_id == Head(order)
        agent_id == AgentId(veh_id)
        st1 == [ st EXCEPT !.agentid_to_vehid = (agent_id :> veh_id) @@ @,
                           !.agent_interfaces = (agent_id :> "agent_spec.interface") @@ @ ]
    IN  IF veh_id \notin DOMAIN missions
        THEN [ st1 EXCEPT !.key_error = TRUE ]
        ELSE AssignLoop(Tail(order), missions,
               IF Falsy(st1.history_start_time)
                  \/ missions[veh_id].start_time < st1.history_start_time
               THEN [ st1 EXCEPT !.history_start_time = missions[veh_id].start_time ]
               ELSE st1)

AssignStart ==
    [ agentid_to_vehid |-> agentid_to_vehid, agent_interfaces |-> agent_interfaces,
      history_start_time |-> NoneT, key_error |-> FALSE ]

ScenarioLists ==
    UNION { [1 .. n -> ScenarioPool] : n \in 1 .. MaxScenarios }

Init ==
    /\ vehicles_to_replace \in 0 .. MaxK
    /\ episodes \in 0 .. MaxEpisodes
    /\ \E p \in ParamSet :
          /\ exists_at_or_after = p[1]
          /\ minimum_history_duration = p[2]
          /\ ends_before = p[3]
    /\ scenarios_iterator \in ScenarioLists
    /\ scenario = NoScenario
    /\ veh_missions = << >> /\ k = 0
    /\ agent_spec = NewAgentSpec
    /\ episode = 0
    /\ agentid_to_vehid = << >> /\ agent_interfaces = << >> /\ dones = << >>
    /\ ego_missions = << >> /\ sample = {} /\ history_start_time = NoneT
    /\ actions = << >>
    /\ \E dt \in SimDtSet : smarts = NewSmarts(dt)
    /\ pc = "main" /\ error = ""
    /\ done_reported = {} /\ handled = << >> /\ ticks = 0 /\ stepped = FALSE
    /\ ops = << >>
    /\ agents = << >> /\ observations = << >> /\ act_calls = << >>
    /\ vehs = << >> /\ vehicles = << >>

Abort(why) == pc' = "aborted" /\ error' = why

\* the log of operations once op has occurred
Record(log, op) ==
    IF \E i \in 1 .. Len(log) : log[i] = op THEN log ELSE Append(log, op)

\* the statements from the step cap to the episode loop, mutated: reset is
\* called right after the agents are built
AfterResetEarly(p) ==
    CASE p = "cap" -> "assign"
      [] p = "assign" -> "build"
      [] p = "build" -> "reset"
      [] p = "reset" -> "set_ego_missions"
      [] p = "set_ego_missions" -> "switch_ego_agents"
      [] p = "switch_ego_agents" -> "while"

\* the statements from the step cap to the episode loop, in the order main
\* executes them: the position that follows position p
After(p) ==
    CASE p = "cap" -> "assign"
      [] p = "assign" -> "build"
      [] p = "build" -> "set_ego_missions"
      [] p = "set_ego_missions" -> "switch_ego_agents"
      [] p = "switch_ego_agents" -> "reset"
      [] p = "reset" -> "while"

\* assert vehicles_to_replace > 0; assert episodes > 0
Start ==
    /\ pc = "main"
    /\ IF vehicles_to_replace > 0 /\ episodes > 0
       THEN pc' = "scenario" /\ error' = error
       ELSE Abort("AssertionError: arguments")
    /\ UNCHANGED <<actVars, paramVars, filterVars, scenarioVars, episodeVars, historyVars,
                   agent_spec, smarts>>

\* if not veh_missions: continue, mutated: the scenario is not skipped
AfterMissionsNoSkip(missions) == "episode"

\* if not veh_missions: continue -- where main goes once veh_missions is built
AfterMissions(missions) ==
    IF DOMAIN missions = {} THEN "scenario" ELSE "episode"

\* for scenario in scenarios_iterator: ... veh_missions ... k
\* a scenario without missions is skipped (continue)
NextScenario ==
    /\ pc = "scenario"
    /\ scenarios_iterator # << >>
    /\ LET sc == Head(scenarios_iterator)
           missions == VehMissionsOf(sc, exists_at_or_after, ends_before,
                                     minimum_history_duration)
       IN  /\ scenario' = sc
           /\ scenarios_iterator' = Tail(scenarios_iterator)
           /\ veh_missions' = missions
           /\ pc' = AfterMissions(missions)
           /\ IF DOMAIN missions = {}
              THEN UNCHANGED <<k, episode, agent_spec>>
              ELSE /\ k' = ClampK(vehicles_to_replace, missions)
                   /\ agent_spec' = NewAgentSpec     \* agent_spec = AgentSpec(...)
                   /\ episode' = 0
    /\ UNCHANGED <<actVars, paramVars, filterVars, agentid_to_vehid, agent_interfaces,
                   dones, ego_missions, sample, history_start_time, actions,
                   historyVars, smarts, error>>

\* the scenarios are exhausted: smarts.destroy()
Destroy ==
    /\ pc = "scenario"
    /\ scenarios_iterator = << >>
    /\ smarts' = [smarts EXCEPT !.destroyed = TRUE]
    /\ pc' = "returned"
    /\ UNCHANGED <<actVars, paramVars, filterVars, scenarioVars, episodeVars, historyVars,
                   agent_spec, error>>

\* for episode in range(episodes): the per-episode maps start empty
EpisodeBegin ==
    /\ pc = "episode"
    /\ episode < episodes
    /\ agentid_to_vehid' = << >> /\ agent_interfaces' = << >>
    /\ agents' = << >> /\ dones' = << >> /\ ego_missions' = << >>
    /\ sample' = {}
    /\ done_reported' = {} /\ handled' = << >> /\ ticks' = 0
    /\ ops' = << >>
    /\ pc' = "select"
    /\ UNCHANGED <<observations, act_calls, paramVars, filterVars, scenarioVars, episode,
                   history_start_time, actions, stepped, agent_spec, smarts,
                   error>>

\* range(episodes) is exhausted: on to the next scenario
EpisodesEnd ==
    /\ pc = "episode"
    /\ episode >= episodes
    /\ pc' = "scenario"
    /\ UNCHANGED <<actVars, paramVars, filterVars, scenarioVars, episodeVars, historyVars,
                   agent_spec, smarts, error>>

HasEgo(sc) == sc.dataset_source = "Waymo" /\ sc.ego_vehicle_id # NoEgo

\* Waymo with an ego vehicle id: sample = {veh_id}, after assert k == 1
SelectEgo ==
    /\ pc = "select"
    /\ HasEgo(scenario)
    /\ IF k = 1
       THEN sample' = {scenario.ego_vehicle_id} /\ pc' = "cap" /\ error' = error
       ELSE sample' = sample /\ Abort("AssertionError: k")
    /\ UNCHANGED <<actVars, paramVars, filterVars, scenarioVars, episode, agentid_to_vehid,
                   agent_interfaces, dones, ego_missions, history_start_time,
                   actions, historyVars, agent_spec, smarts>>

\* sample = set(random.sample(tuple(veh_missions.keys()), k))
SelectRandom ==
    /\ pc = "select"
    /\ ~HasEgo(scenario)
    /\ \E smp \in SUBSET DOMAIN veh_missions :
          /\ Cardinality(smp) = k
          /\ sample' = smp
    /\ pc' = "cap"
    /\ UNCHANGED <<actVars, paramVars, filterVars, scenarioVars, episode, agentid_to_vehid,
                   agent_interfaces, dones, ego_missions, history_start_time,
                   actions, historyVars, agent_spec, smarts, error>>

\* agent_spec.interface.max_episode_steps = max([...]); a final exit time of
\* None cannot be divided (TypeError)
SetCap ==
    /\ pc = "cap"
    /\ IF \E v \in sample : scenario.final_exit_time[v] = NoneT
       THEN /\ agent_spec' = agent_spec /\ ops' = ops
            /\ Abort("TypeError: final exit time")
       ELSE /\ agent_spec' = [agent_spec EXCEPT !.interface.max_episode_steps =
                                 MaxEpisodeSteps(scenario, sample)]
            /\ ops' = Record(ops, "cap")
            /\ pc' = After(pc) /\ error' = error
    /\ UNCHANGED <<actVars, paramVars, filterVars, scenarioVars, episodeVars, histRestVars,
                   smarts>>

\* history_start_time = None; for veh_id in sample: ... (some iteration order)
Assign ==
    /\ pc = "assign"
    /\ \E order \in Orders(sample) :
          LET st == AssignLoop(order, veh_missions, AssignStart)
          IN  /\ agentid_to_vehid' = st.agentid_to_vehid
              /\ agent_interfaces' = st.agent_interfaces
              /\ history_start_time' = st.history_start_time
              /\ IF st.key_error
                 THEN Abort("KeyError: veh_missions")
                 ELSE pc' = After(pc) /\ error' = error
    /\ UNCHANGED <<actVars, paramVars, filterVars, scenarioVars, episode, dones,
                   ego_missions, sample, actions, historyVars, agent_spec,
                   smarts>>

\* for agent_id in agent_interfaces.keys(): build the agent, load its data
BuildAgents ==
    /\ pc = "build"
    /\ agents' = [ a \in DOMAIN agent_interfaces |->
                     LoadData(NewAgent(smarts.fixed_timestep_sec),
                              agentid_to_vehid[a],
                              scenario.files[agentid_to_vehid[a]],
                              history_start_time) ] @@ agents
    /\ dones' = [ a \in DOMAIN agent_interfaces |-> FALSE ] @@ dones
    /\ ego_missions' = [ a \in DOMAIN agent_interfaces |->
                           veh_missions[agentid_to_vehid[a]] ] @@ ego_missions
    /\ ops' = Record(ops, "build")
    /\ pc' = After(pc)
    /\ UNCHANGED <<observations, act_calls, paramVars, filterVars, scenarioVars, episode,
                   agentid_to_vehid, agent_interfaces, sample,
                   history_start_time, actions, histRestVars, agent_spec,
                   smarts, error>>

----------------------------------------------------------------------------
(* main: the simulator calls and the episode loop *)

\* the live states the simulator reports: the recorded one, and one whose
\* heading is off by more than the tolerance
EgoStates == { [ heading |-> 0, speed |-> 50, position |-> <<10, 20>> ],
               [ heading |-> 2, speed |-> 50, position |-> <<10, 20>> ] }

Observation(t, state, goal) ==
    [ elapsed_sim_time |-> t, ego_vehicle_state |-> state,
      events |-> [ reached_goal |-> goal ] ]

\* the agents whose vehicle is in the simulation at time t: installed, not
\* yet gone, and past the start time of their mission
SimPresent(sm, sc, t) ==
    { a \in DOMAIN sm.agent_interfaces \ sm.ended :
        a \in DOMAIN sc.ego_missions /\ sc.ego_missions[a].start_time <= t }

\* sim_start_time, mutated: the difference is not clamped at 0
SimStartTimeNoClamp(hst, dt) == hst - dt

\* sim_start_time = max(0, history_start_time - smarts.fixed_timestep_sec)
SimStartTime(hst, dt) == Max2(0, hst - dt)

\* scenario.set_ego_missions(ego_missions)
SetEgoMissions ==
    /\ pc = "set_ego_missions"
    /\ scenario' = [scenario EXCEPT !.ego_missions = ego_missions]
    /\ ops' = Record(ops, "set_ego_missions")
    /\ pc' = After(pc)
    /\ UNCHANGED <<actVars, paramVars, filterVars, scenarios_iterator, veh_missions, k,
                   episodeVars, histRestVars, agent_spec, smarts, error>>

\* smarts.switch_ego_agents(agent_interfaces)
SwitchEgoAgents ==
    /\ pc = "switch_ego_agents"
    /\ smarts' = [smarts EXCEPT !.agent_interfaces = agent_interfaces]
    /\ ops' = Record(ops, "switch_ego_agents")
    /\ pc' = After(pc)
    /\ UNCHANGED <<actVars, paramVars, filterVars, scenarioVars, episodeVars, histRestVars,
                   agent_spec, error>>

\* smarts.reset(scenario, start_time): the clock ticks over once before the
\* first observations are captured.  The outcomes: the simulator after the
\* reset and the observations it returns.
smarts_reset(sm, sc, start_time) ==
    LET now == start_time + sm.fixed_timestep_sec
        sm1 == [sm EXCEPT !.ended = {}, !.elapsed_sim_time = now,
                          !.start_time = start_time, !.resets = @ + 1]
        present == SimPresent(sm1, sc, now)
    IN  { [ observations |-> [ a \in present |-> Observation(now, live[a], FALSE) ],
            smarts |-> [sm1 EXCEPT !.steps =
                          [ a \in DOMAIN sm1.agent_interfaces |->
                              IF a \in present THEN 1 ELSE 0 ]] ] :
          live \in [present -> EgoStates] }

\* smarts.step(actions): one tick.  Every agent whose vehicle is present gets
\* an observation and a done flag; a vehicle leaves when its agent is done,
\* at the latest when it has used up max_episode_steps (cap) of its interface.
smarts_step(sm, sc, cap) ==
    LET now == sm.elapsed_sim_time + sm.fixed_timestep_sec
        present == SimPresent(sm, sc, now)
        fates == { f \in [present -> {"run", "goal", "exit"}] :
                     \A a \in present : sm.steps[a] + 1 >= cap => f[a] # "run" }
    IN  { [ observations |->
              [ a \in present |-> Observation(now, live[a], fate[a] = "goal") ],
            dones |-> [ a \in present |-> fate[a] # "run" ],
            smarts |-> [sm EXCEPT
                !.elapsed_sim_time = now,
                !.steps = [ a \in DOMAIN @ |-> IF a \in present THEN @[a] + 1 ELSE @[a] ],
                !.ended = @ \cup { a \in present : fate[a] # "run" }] ] :
          fate \in fates, live \in [present -> EgoStates] }

\* observations = smarts.reset(scenario, sim_start_time), and the assertion
\* on smarts.elapsed_sim_time that follows it
Reset ==
    /\ pc = "reset"
    /\ \E out \in smarts_reset(smarts, scenario,
                SimStartTime(history_start_time, smarts.fixed_timestep_sec)) :
          /\ observations' = out.observations
          /\ smarts' = out.smarts
          /\ IF \/ out.smarts.elapsed_sim_time = out.smarts.fixed_timestep_sec
                \/ IsClose(out.smarts.elapsed_sim_time, history_start_time, 0)
             THEN pc' = After(pc) /\ error' = error
             ELSE Abort("AssertionError: elapsed_sim_time")
    /\ ops' = Record(ops, "reset")
    /\ UNCHANGED <<agents, act_calls, paramVars, filterVars, scenarioVars, episodeVars,
                   histRestVars, agent_spec>>

\* all(done for done in dones.values())
AllDone(ds) == \A a \in DOMAIN ds : ds[a]

\* the while condition is false: the episode is over
LoopExit ==
    /\ pc = "while"
    /\ AllDone(dones)
    /\ episode' = episode + 1
    /\ pc' = "episode"
    /\ UNCHANGED <<actVars, paramVars, filterVars, scenarioVars, agentid_to_vehid,
                   agent_interfaces, dones, ego_missions, sample,
                   history_start_time, actions, historyVars, agent_spec,
                   smarts, error>>

\* actions = {agent_id: agents[agent_id].act(agent_obs) for ... in
\* observations.items()}; an assertion of act ends main
ActAll ==
    /\ pc = "while"
    /\ ~AllDone(dones)
    /\ LET results == [ a \in DOMAIN observations |-> Act(agents[a], observations[a]) ]
       IN  IF \E a \in DOMAIN results : ~results[a].returned
           THEN actions' = actions /\ Abort("AssertionError: act")
           ELSE /\ actions' = [ a \in DOMAIN results |-> results[a].action ]
                /\ pc' = "step" /\ error' = error
    /\ ops' = IF DOMAIN observations = {} THEN ops ELSE Record(ops, "act")
    /\ agents' = [ a \in DOMAIN agents |->
                     IF a \in DOMAIN observations
                     THEN AgentAfterAct(agents[a], observations[a])
                     ELSE agents[a] ]
    /\ UNCHANGED <<observations, act_calls, paramVars, filterVars, scenarioVars, episode, agentid_to_vehid,
                   agent_interfaces, dones, ego_missions, sample,
                   history_start_time, histRestVars, agent_spec, smarts>>

\* observations, rewards, dones, infos = smarts.step(actions); the interface
\* the simulator holds is the shared agent_spec.interface
Step ==
    /\ pc = "step"
    /\ \E out \in smarts_step(smarts, scenario,
                              agent_spec.interface.max_episode_steps) :
          /\ observations' = out.observations
          /\ dones' = out.dones
          /\ smarts' = out.smarts
          /\ done_reported' =
                done_reported \cup { a \in DOMAIN out.dones : out.dones[a] }
    /\ ticks' = ticks + 1
    /\ stepped' = TRUE
    /\ ops' = Record(ops, "step")
    /\ pc' = "cleanup"
    /\ UNCHANGED <<agents, act_calls, paramVars, filterVars, scenarioVars, episode,
                   agentid_to_vehid, agent_interfaces, ego_missions, sample,
                   history_start_time, actions, handled, agent_spec, error>>

\* the agents the loop after step treats as newly done
NewlyDone(ags, ds) == { a \in DOMAIN ags : a \in DOMAIN ds /\ ds[a] }

\* del observations[agent_id], mutated: nothing is deleted
PruneNothing(obs, newly) == obs

\* del observations[agent_id] for every newly done agent
Prune(obs, newly) == [ a \in DOMAIN obs \ newly |-> obs[a] ]

\* for agent_id in agents.keys(): if dones.get(agent_id, False): log, del
Cleanup ==
    /\ pc = "cleanup"
    /\ LET newly == NewlyDone(agents, dones)
       IN  IF \E a \in newly : a \notin DOMAIN observations
           THEN /\ Abort("KeyError: observations")
                /\ UNCHANGED <<observations, handled>>
           ELSE /\ observations' = Prune(observations, newly)
                /\ handled' = [ a \in DOMAIN agents |->
                                  (IF a \in DOMAIN handled THEN handled[a] ELSE 0)
                                  + (IF a \in newly THEN 1 ELSE 0) ]
                /\ pc' = "while" /\ error' = error
    /\ UNCHANGED <<agents, act_calls, paramVars, filterVars, scenarioVars, episodeVars,
                   done_reported, ticks, stepped, ops, agent_spec, smarts>>

Next ==
    \/ Start
    \/ NextScenario
    \/ Destroy
    \/ EpisodeBegin
    \/ EpisodesEnd
    \/ SelectEgo
    \/ SelectRandom
    \/ SetCap
    \/ Assign
    \/ BuildAgents
    \/ SetEgoMissions
    \/ SwitchEgoAgents
    \/ Reset
    \/ LoopExit
    \/ ActAll
    \/ Step
    \/ Cleanup

Spec == Init /\ [][Next]_vars

----------------------------------------------------------------------------
(* Claims about act() *)

HasCall == Len(act_calls) = 1
TheCall == act_calls[1]
\* the fields of the called agent when act was entered
CallAgent == TheCall.agent
CallObsTime ==
    RoundTo(TheCall.obs.elapsed_sim_time + CallAgent.time_offset,
            Grid(CallAgent.fixed_timestep_sec))
CallLoaded == HasCall /\ ~CallAgent.data_is_none
CallHasRecord == CallLoaded /\ CallObsTime \in DOMAIN CallAgent.data

\* C3: for every loaded series, a call of act whose quantized observation
\* time has no entry in the series returns (0.0, 0.0), evaluates no
\* tolerance assertion and does not fail.
C3_NeutralWhenAbsent ==
    (CallLoaded /\ CallObsTime \notin DOMAIN CallAgent.data)
        => /\ TheCall.result.returned
           /\ TheCall.result.action = <<0, 0>>
           /\ ~TheCall.result.checked

WithinTolerance ==
    LET cur == TheCall.obs.ego_vehicle_state
        exp == CallAgent.data[CallObsTime]
    IN  /\ Abs(cur.heading - exp.heading) <= 1
        /\ Abs(cur.speed - exp.speed) <= 2
        /\ Abs(cur.position[1] - exp.ego_pos[1]) <= 2
        /\ Abs(cur.position[2] - exp.ego_pos[2]) <= 2

\* C4: when a record exists at the quantized observation time, act returns
\* an action exactly when heading, speed and both position components are
\* within 1e-2, 0.2, 2 and 2 of the recorded ones (the limit included), and
\* otherwise fails an assertion and returns nothing.
C4_ToleranceBoundary ==
    CallHasRecord =>
        /\ TheCall.result.returned <=> WithinTolerance
        /\ TheCall.result.checked
        /\ ~WithinTolerance =>
              TheCall.result.outcome \in
                 {"assert_heading", "assert_speed", "assert_pos_x", "assert_pos_y"}

\* a call accepted with the heading exactly at its limit
C4_Witness ==
    /\ CallHasRecord
    /\ Abs(TheCall.obs.ego_vehicle_state.heading
           - CallAgent.data[CallObsTime].heading) = 1
    /\ Abs(TheCall.obs.ego_vehicle_state.position[1]
           - CallAgent.data[CallObsTime].ego_pos[1]) = 2
    /\ TheCall.result.returned

CallNextKey ==
    RoundTo(CallObsTime + CallAgent.fixed_timestep_sec,
            Grid(CallAgent.fixed_timestep_sec))

\* C5: when the record at obs_time exists and the live state is within
\* tolerance, act returns the (acceleration, angular_velocity) stored at
\* key quantize(obs_time + dt), or (0, 0) when the series has no such key.
C5_NextControl ==
    (CallHasRecord /\ WithinTolerance) =>
        /\ TheCall.result.returned
        /\ TheCall.result.action =
              IF CallNextKey \in DOMAIN CallAgent.data
              THEN << CallAgent.data[CallNextKey].acceleration,
                      CallAgent.data[CallNextKey].angular_velocity >>
              ELSE <<0, 0>>

\* a validated call that replays the stored control of the next tick
C5_Witness ==
    /\ CallHasRecord
    /\ WithinTolerance
    /\ CallNextKey \in DOMAIN CallAgent.data
    /\ TheCall.result.action = <<2, 0 - 2>>

----------------------------------------------------------------------------
(* Claims about main *)

\* the episode loop of the current episode has just exited
LoopExited == pc = "episode" /\ episode > 0

\* C1: the episode loop exits only when every selected agent (every key of
\* agents) has been reported done at some tick of the episode.
C1_ExitOnlyWhenAllDone == LoopExited => DOMAIN agents \subseteq done_reported

SetMin(S) == CHOOSE m \in S : \A x \in S : m <= x

\* C2: history_start_time, as main leaves the loop over the sample, is the
\* minimum mission start_time over the selected vehicles, whatever the
\* iteration order and also when a start_time is 0.
C2_StartIsMin ==
    pc = "build" =>
        history_start_time = SetMin({ veh_missions[v].start_time : v \in sample })

\* C6: once an agent is reported done its observation is removed, so act is
\* not invoked on it again in the episode, and every agent that has an
\* observation is polled on each tick.
C6_DoneNotPolledAgain ==
    /\ pc = "step" => /\ DOMAIN actions \cap done_reported = {}
                      /\ DOMAIN actions = DOMAIN observations
    /\ pc = "while" => DOMAIN observations \cap done_reported = {}

\* an agent is polled on a tick after another agent was reported done
C6_Witness ==
    /\ pc = "step"
    /\ done_reported # {}
    /\ DOMAIN actions # {}
    /\ DOMAIN actions # DOMAIN agents

\* C7: the episode loop ends after at most max(final_exit_time)/dt ticks and
\* every selected agent has then been handled as newly done exactly once.
C7_EveryAgentHandledOnce ==
    LoopExited =>
        /\ ticks * smarts.fixed_timestep_sec
              <= SetMax({ scenario.final_exit_time[v] : v \in sample })
        /\ \A a \in DOMAIN agents : a \in DOMAIN handled /\ handled[a] = 1

\* C8: with a single-ego dataset the selection is exactly the ego vehicle,
\* and it is only made when the requested vehicles_to_replace is 1.
C8_SingleEgoNeedsK1 ==
    (pc = "cap" /\ HasEgo(scenario)) =>
        /\ sample = {scenario.ego_vehicle_id}
        /\ vehicles_to_replace = 1

\* C9: the selection of every episode is a set of admissible mission ids of
\* size min(vehicles_to_replace, |admissible|).
C9_SelectionSize ==
    pc = "cap" =>
        /\ sample \subseteq DOMAIN veh_missions
        /\ Cardinality(sample) =
              IF vehicles_to_replace <= Cardinality(DOMAIN veh_missions)
              THEN vehicles_to_replace ELSE Cardinality(DOMAIN veh_missions)

ConfigErrors == {"AssertionError: k", "TypeError: final exit time"}

\* C10: a configuration error aborts the run before any simulation step: no
\* step precedes such an abort, and no step is taken for a single-ego
\* dataset when more than one replacement was requested.
C10_ConfigErrorBeforeAnyStep ==
    /\ (pc = "aborted" /\ error \in ConfigErrors) => ~stepped
    /\ (HasEgo(scenario) /\ vehicles_to_replace > 1) => pc # "cleanup"

\* C11: the step cap main writes into the shared interface is the maximum
\* over the selected vehicles of vehicle_final_exit_time / dt, dt being the
\* simulator's fixed_timestep_sec (stated without division: cap * dt).
C11_CapUsesTickDuration ==
    pc = "assign" =>
        agent_spec.interface.max_episode_steps * smarts.fixed_timestep_sec
            = SetMax({ scenario.final_exit_time[v] : v \in sample })

----------------------------------------------------------------------------
(* Claims about the quantizer, as act() uses it *)

\* the time act quantizes: elapsed_sim_time + time_offset
CallRawTime == TheCall.obs.elapsed_sim_time + CallAgent.time_offset

\* the grid points of the quantizer for the tick durations of DtSet (0.1 s)
GridPoints == { 10 * n : n \in 0 .. (MaxTime \div 10) + 3 }

\* C12, as stated: quantize(t) = quantize(t + e) for every time t and every
\* e with |e| < dt/2.
C12_DriftStable ==
    HasCall =>
        \A e \in (0 - CallAgent.fixed_timestep_sec) .. CallAgent.fixed_timestep_sec :
            (2 * Abs(e) < CallAgent.fixed_timestep_sec /\ CallRawTime + e >= 0)
                => Rounder(CallAgent.fixed_timestep_sec, CallRawTime + e)
                      = TheCall.obs_time

\* C12, amended: a time that has drifted from a grid point g by less than
\* half a grid step is quantized to g.
C12_StableAroundGridPoints ==
    HasCall =>
        \A g \in GridPoints :
            2 * Abs(CallRawTime - g) < 10 => TheCall.obs_time = g

\* a drifted time was snapped back to its grid point
C12_Witness ==
    /\ HasCall
    /\ CallRawTime % 10 \notin {0, 5}
    /\ TheCall.obs_time % 10 = 0
    /\ TheCall.obs_time # CallRawTime

----------------------------------------------------------------------------
(* Claims about custom_filter *)

\* a window the filter must keep: both bounds strict
Admissible(w) ==
    w.average_speed > 3 /\ Abs(w.start_time - exists_at_or_after) < 400

AdmissibleAt == { i \in DOMAIN vehs : Admissible(vehs[i]) }

\* C13: custom_filter returns exactly the input windows with
\* average_speed > 3 and abs(start_time - exists_at_or_after) < 4, in input
\* order and adding none; of A(start 38, speed 5) and B(start 50, speed 1)
\* with exists_at_or_after = 40 it keeps only A.
C13_FilterExact ==
    pc = "filtered" =>
        /\ Len(vehicles) = Cardinality(AdmissibleAt)
        /\ \A i \in AdmissibleAt :
              vehicles[Cardinality({ j \in AdmissibleAt : j <= i })] = vehs[i]
        /\ (vehs = <<WindowA, WindowB>> /\ exists_at_or_after = 4000)
              => vehicles = <<WindowA>>

\* the filter has dropped a window whose start is exactly 4 s away and kept
\* one that follows it
C13_Witness ==
    /\ pc = "filtered"
    /\ exists_at_or_after = 4000
    /\ Len(vehs) = 2
    /\ vehs[1].start_time = 4400 /\ vehs[1].average_speed = 4
    /\ vehicles = <<vehs[2]>>

\* the scenario main is working on has no admissible vehicle mission
NoMissions == scenario # NoScenario /\ DOMAIN veh_missions = {}

\* the engagement of an episode has begun: selection, agents, reset, steps
InEpisode ==
    pc \in {"episode", "select", "cap", "assign", "build", "set_ego_missions",
            "switch_ego_agents", "reset", "while", "step", "cleanup"}

\* C14: a scenario without admissible missions is skipped without failing:
\* while it is the current scenario main never enters an episode (no agent
\* built, no mission assigned, no reset, no step) and raises nothing, and
\* main goes on to the next scenario.
C14_EmptyScenarioSkipped ==
    /\ NoMissions => /\ ~InEpisode
                     /\ pc \in {"scenario", "returned"}
                     /\ error = ""
                     /\ scenario.ego_missions = << >>
    /\ (NoMissions /\ pc = "scenario" /\ scenarios_iterator # << >>)
          => ENABLED NextScenario

\* a scenario was skipped and another one is waiting
C14_Witness ==
    /\ NoMissions
    /\ pc = "scenario"
    /\ scenarios_iterator # << >>
    /\ scenario.vehicle_windows # << >>

\* the simulator has been reset for the current episode
AfterReset == pc \in {"while", "step", "cleanup"}

\* C15: the simulator is reset at max(0, history_start_time - dt): never at
\* a negative time, and exactly one tick before history_start_time whenever
\* history_start_time >= dt.
C15_ResetOneTickEarly ==
    AfterReset =>
        /\ smarts.start_time >= 0
        /\ history_start_time >= smarts.fixed_timestep_sec
              => smarts.start_time + smarts.fixed_timestep_sec = history_start_time
        /\ history_start_time < smarts.fixed_timestep_sec => smarts.start_time = 0

\* an episode was reset one tick before a later start, at a positive time
C15_Witness ==
    /\ AfterReset
    /\ smarts.start_time > 0
    /\ smarts.start_time + smarts.fixed_timestep_sec = history_start_time

\* the position of op in the log of this episode, 0 when it has not occurred
Pos(op) ==
    IF \E i \in 1 .. Len(ops) : ops[i] = op
    THEN CHOOSE i \in 1 .. Len(ops) : ops[i] = op
    ELSE 0

\* op b has not occurred unless op a occurred first
Precedes(a, b) == Pos(b) > 0 => (Pos(a) > 0 /\ Pos(a) < Pos(b))

\* every selected vehicle has an agent that is built and has its data loaded
AllBuiltAndLoaded ==
    \A v \in sample :
        \E a \in DOMAIN agents :
            agents[a].vehicle_id = v /\ ~agents[a].data_is_none

\* C16: within an episode the step cap is written before any agent is built,
\* every selected agent is built and loaded before set_ego_missions and
\* switch_ego_agents, both of these come before reset, and no act or step
\* comes before reset.
C16_EpisodeOrder ==
    /\ Precedes("cap", "build")
    /\ Precedes("build", "set_ego_missions")
    /\ Precedes("build", "switch_ego_agents")
    /\ (Pos("set_ego_missions") > 0 \/ Pos("switch_ego_agents") > 0)
          => AllBuiltAndLoaded
    /\ Precedes("set_ego_missions", "reset")
    /\ Precedes("switch_ego_agents", "reset")
    /\ Precedes("reset", "act")
    /\ Precedes("reset", "step")

\* an episode of two vehicles in which every one of the operations occurred
C16_Witness ==
    /\ Cardinality(sample) = 2
    /\ Len(ops) = 7
    /\ Pos("act") > 0 /\ Pos("step") > 0

\* the vehicles the agent ids of this episode stand for
MappedVehicles == { agentid_to_vehid[a] : a \in DOMAIN agentid_to_vehid }

\* C17: when reset is called, agents, dones, ego_missions, agent_interfaces
\* and agentid_to_vehid have the same key set, with exactly one agent id per
\* selected vehicle; every dones entry is False, and every agent is the one
\* built and loaded in this episode.
C17_MapsAlignedAtReset ==
    pc = "reset" =>
        /\ DOMAIN agents = DOMAIN agentid_to_vehid
        /\ DOMAIN dones = DOMAIN agentid_to_vehid
        /\ DOMAIN ego_missions = DOMAIN agentid_to_vehid
        /\ DOMAIN agent_interfaces = DOMAIN agentid_to_vehid
        /\ MappedVehicles = sample
        /\ Cardinality(DOMAIN agentid_to_vehid) = Cardinality(sample)
        /\ \A a \in DOMAIN dones : dones[a] = FALSE
        /\ \A a \in DOMAIN agents :
              /\ agents[a].vehicle_id = agentid_to_vehid[a]
              /\ agents[a].time_offset = history_start_time
              /\ ~agents[a].data_is_none

\* reset is about to be called in an episode that follows one in which an
\* agent of another vehicle acted
C17_Witness ==
    /\ pc = "reset"
    /\ episode >= 1
    /\ \E a \in DOMAIN actions : a \notin DOMAIN agents

\* main holds a selection whose vehicles it is about to look up
Selected == pc \in {"cap", "assign", "build"}

\* C18: every selected vehicle id is a key of veh_missions, so that the
\* lookups of its mission and start time never fail.
C18_SelectedHaveMissions ==
    /\ Selected => \A v \in sample : v \in DOMAIN veh_missions
    /\ error # "KeyError: veh_missions"

\* C19: a call of act leaves every agent as it was, on every path of act:
\* the series, time offset and vehicle id of the called agent, and the series
\* of every other agent.
C19_ActLeavesAgents ==
    [][act_calls' # act_calls => agents' = agents]_vars

\* an agent other than the called one holds a series
OtherLoaded ==
    \E a \in DOMAIN agents :
        a # TheCall.agent_id /\ ~agents[a].data_is_none /\ DOMAIN agents[a].data # {}

\* act validated an observation against the series and returned an action,
\* while another agent holds a series of its own
C19_Witness ==
    /\ CallHasRecord
    /\ TheCall.result.returned /\ TheCall.result.checked
    /\ OtherLoaded
====
